---- MODULE Spec2Model ----
(***************************************************************************)
(* Model of the compendium pack compiler (pack.mjs): the hierarchy         *)
(* traversal (applyHierarchy), the normaliser (mapHierarchy) and the pack  *)
(* writer (compileClassicLevel) over a LevelDB-like ordered store.         *)
(*                                                                         *)
(* Representation of JavaScript values:                                    *)
(*   - a string that is split on "!" (a document key) is a sequence of     *)
(*     tokens, the token "!" being the delimiter character;                *)
(*   - an optional key is None (the property is absent, i.e. undefined)    *)
(*     or Some(key);                                                       *)
(*   - other strings (_id, name, collection and field names) are TLA+      *)
(*     strings, Undefined and Null standing for undefined and null;        *)
(*   - a document is a record [key, id, name, emb], emb being a function   *)
(*     from the names of the fields it holds to field values; a field      *)
(*     value is [t, v] with t = "arr" (an array of documents v), "obj" (one*)
(*     document, v[1]) or "null"; an absent field is not in DOMAIN emb;    *)
(*   - after mapHierarchy a field is [t |-> "ids", v] (array of _id),      *)
(*     [t |-> "id", v |-> <<_id>>] or [t |-> "null"].                     *)
(***************************************************************************)
EXTENDS Integers, Sequences, FiniteSets, TLC

VARIABLES
    files,      \* decoded contents of the source files, in enumeration order
    hook,       \* the transformEntry option of this compile
    store,      \* the LevelDB content: key -> JSON value
    store0,     \* the store content when the current run started
    handle,     \* "none" | "open" | "closed": the ClassicLevel handle of the run
    batch,      \* the chained batch: sequence of put/del operations
    seenKeys,   \* the Set seenKeys
    pc,         \* position of compileClassicLevel
    fi,         \* index of the file being processed
    todo,       \* pending apply(doc, collection) calls of the current document
    local,      \* key and value of fn's call, from seenKeys.add(key) on: None
                \* before the first call of a run, else Some([key, value])
    run,        \* 1 in the first compile run, 2 in the second
    visited,    \* keys in the order packDoc's callback staged them (this run)
    writes,     \* number of batch.write() commits of this run
    compacted,  \* compactRange calls of this run, each <<firstKey, lastKey>>
    firstStore, \* the store content when the first successful run ended
    err,        \* what made the run fail ("" while it has not failed)
    entrypoint, \* who called compilePack: "call" (a caller with options) or
                \* "then" (index.mjs)
    entryState, \* "pending" | "unhandled": what became of a rejection
    reported,   \* the messages given to core.setFailed
    dir,        \* the entries of the source directory
    recursive,  \* the option recursive of findSourceFiles
    found       \* the paths findSourceFiles returned

\* The state of the entrypoint and of the source-file enumeration.
entryVars == <<entrypoint, entryState, reported>>
scanVars == <<dir, recursive, found>>

vars == <<files, hook, store, store0, handle, batch, seenKeys, pc, fi, todo,
          local, run, visited, writes, compacted, firstStore, err, entrypoint, entryState,
          reported, dir, recursive, found>>

\* Bounds of the model.
MaxFiles == 2

(***************************************************************************)
(* JavaScript values                                                       *)
(***************************************************************************)
None == <<>>
Some(x) == <<x>>
Undefined == "<undefined>"
Null == "<null>"

SeqToSet(s) == {s[i] : i \in 1..Len(s)}

\* The empty object {} as a field map.
NoFields == <<>>

Arr(s) == [t |-> "arr", v |-> s]
Obj(d) == [t |-> "obj", v |-> <<d>>]
NullField == [t |-> "null", v |-> <<>>]

\* A decoded object.  obj tells which object it is: "own" for an object that
\* occurs once, a label for an object that occurs in several places (a YAML
\* anchor and its aliases decode to one object), "null" for the value null.
Doc(k, i, n, e) == [key |-> k, id |-> i, name |-> n, emb |-> e, obj |-> "own"]

\* The object d, occurring wherever the same label occurs.
Shared(d, label) == [d EXCEPT !.obj = label]

\* null as an element of an array.
NullElem == [key |-> None, id |-> Null, name |-> Null, emb |-> NoFields, obj |-> "null"]
IsNull(d) == d.obj = "null"

\* doc[name]: the field's value, or Undefined when the document has none.
Field(doc, fname) ==
    IF fname \in DOMAIN doc.emb THEN doc.emb[fname] ELSE [t |-> "undefined", v |-> <<>>]

\* Array.isArray(x) and the truthiness of a field value.
IsArray(x) == x.t = "arr"
Truthy(x) == x.t \in {"arr", "obj"}

(***************************************************************************)
(* HIERARCHY: collection -> its embedded fields in declaration order, each *)
(* an array [] ("Sequence") or an object {} ("Singleton").                 *)
(***************************************************************************)
Sq(n) == [name |-> n, type |-> "Sequence"]
Sg(n) == [name |-> n, type |-> "Singleton"]

\* Mutant of HIERARCHY: items embed items.
HIERARCHYItemsLoop ==
    [actors    |-> <<Sq("items"), Sq("effects")>>,
     cards     |-> <<Sq("cards")>>,
     combats   |-> <<Sq("combatants")>>,
     delta     |-> <<Sq("items"), Sq("effects")>>,
     items     |-> <<Sq("effects"), Sq("items")>>,
     journal   |-> <<Sq("pages")>>,
     playlists |-> <<Sq("sounds")>>,
     regions   |-> <<Sq("behaviors")>>,
     tables    |-> <<Sq("results")>>,
     tokens    |-> <<Sg("delta")>>,
     scenes    |-> <<Sq("drawings"), Sq("tokens"), Sq("lights"), Sq("notes"),
                     Sq("regions"), Sq("sounds"), Sq("templates"), Sq("tiles"),
                     Sq("walls")>>]

HIERARCHY ==
    [actors    |-> <<Sq("items"), Sq("effects")>>,
     cards     |-> <<Sq("cards")>>,
     combats   |-> <<Sq("combatants")>>,
     delta     |-> <<Sq("items"), Sq("effects")>>,
     items     |-> <<Sq("effects")>>,
     journal   |-> <<Sq("pages")>>,
     playlists |-> <<Sq("sounds")>>,
     regions   |-> <<Sq("behaviors")>>,
     tables    |-> <<Sq("results")>>,
     tokens    |-> <<Sg("delta")>>,
     scenes    |-> <<Sq("drawings"), Sq("tokens"), Sq("lights"), Sq("notes"),
                     Sq("regions"), Sq("sounds"), Sq("templates"), Sq("tiles"),
                     Sq("walls")>>]

\* Object.entries(HIERARCHY[collection] ?? {}); collection is None when it is
\* undefined.
HierarchyEntries(collection) ==
    IF collection # None /\ collection[1] \in DOMAIN HIERARCHY
    THEN HIERARCHY[collection[1]]
    ELSE <<>>

(***************************************************************************)
(* key.split("!")                                                          *)
(***************************************************************************)
RECURSIVE SplitFrom(_, _, _)
\* The segments of s from position i on, cur being the segment read so far.
SplitFrom(s, i, cur) ==
    IF i > Len(s) THEN <<cur>>
    ELSE IF s[i] = "!" THEN <<cur>> \o SplitFrom(s, i + 1, <<>>)
    ELSE SplitFrom(s, i + 1, Append(cur, s[i]))

Split(s) == SplitFrom(s, 1, <<>>)

\* A segment as a property name: "" for the empty segment.
SegmentName(seg) == IF seg = <<>> THEN "" ELSE seg[1]

\* const [, collection] = doc._key.split("!"): the second segment, or None
\* (undefined) when the key holds no "!".
CollectionOf(key) ==
    LET parts == Split(key)
    IN IF Len(parts) >= 2 THEN Some(SegmentName(parts[2])) ELSE None

(***************************************************************************)
(* applyHierarchy: the recursive calls one apply(doc, collection) makes    *)
(***************************************************************************)
Call(d, c) == [doc |-> d, collection |-> c]

\* A field value passed to apply() as a document.  An array passed as a
\* document has no _key, no _id and none of the embedded fields.
AsDoc(x) == IF x.t = "obj" THEN x.v[1] ELSE Doc(None, Undefined, Undefined, NoFields)

\* The apply() calls made for one entry of the collection's hierarchy.
EntryCalls(doc, entry) ==
    LET embeddedValue == Field(doc, entry.name)
    IN IF entry.type = "Sequence" /\ IsArray(embeddedValue)
       THEN [i \in 1..Len(embeddedValue.v) |->
                Call(embeddedValue.v[i], Some(entry.name))]
       ELSE IF Truthy(embeddedValue)
       THEN <<Call(AsDoc(embeddedValue), Some(entry.name))>>
       ELSE <<>>

RECURSIVE CallsFrom(_, _, _)
CallsFrom(doc, entries, i) ==
    IF i > Len(entries) THEN <<>>
    ELSE EntryCalls(doc, entries[i]) \o CallsFrom(doc, entries, i + 1)

\* The recursive calls of apply(doc, collection), in the order they are
\* awaited (after fn(doc, collection) has returned).
applyHierarchy(doc, collection) ==
    CallsFrom(doc, HierarchyEntries(collection), 1)

(***************************************************************************)
(* mapHierarchy with fn = d => d._id                                       *)
(***************************************************************************)
\* d => d._id, for a field value used as one document.
IdOf(x) == AsDoc(x).id

\* Mutant of MappedField: the children are mapped in reverse order.
MappedFieldReversed(doc, entry) ==
    LET embeddedValue == Field(doc, entry.name)
        k == Len(embeddedValue.v)
    IN IF entry.type = "Sequence"
       THEN IF IsArray(embeddedValue)
            THEN [t |-> "ids",
                  v |-> [i \in 1..k |-> embeddedValue.v[k + 1 - i].id]]
            ELSE [t |-> "ids", v |-> <<>>]
       ELSE IF Truthy(embeddedValue)
            THEN [t |-> "id", v |-> <<IdOf(embeddedValue)>>]
            ELSE NullField

\* Mutant of MappedField: a Sequence field without a list defaults to null.
MappedFieldNullDefault(doc, entry) ==
    LET embeddedValue == Field(doc, entry.name)
    IN IF entry.type = "Sequence"
       THEN IF IsArray(embeddedValue)
            THEN [t |-> "ids",
                  v |-> [i \in 1..Len(embeddedValue.v) |-> embeddedValue.v[i].id]]
            ELSE NullField
       ELSE IF Truthy(embeddedValue)
            THEN [t |-> "id", v |-> <<IdOf(embeddedValue)>>]
            ELSE NullField

\* The value mapHierarchy assigns to doc[entry.name].
MappedField(doc, entry) ==
    LET embeddedValue == Field(doc, entry.name)
    IN IF entry.type = "Sequence"
       THEN IF IsArray(embeddedValue)
            THEN [t |-> "ids",
                  v |-> [i \in 1..Len(embeddedValue.v) |-> embeddedValue.v[i].id]]
            ELSE [t |-> "ids", v |-> <<>>]
       ELSE IF Truthy(embeddedValue)
            THEN [t |-> "id", v |-> <<IdOf(embeddedValue)>>]
            ELSE NullField

\* d => d._id throws a TypeError when an element of the array is null.
MappedFieldThrows(doc, entry) ==
    LET embeddedValue == Field(doc, entry.name)
    IN /\ entry.type = "Sequence"
       /\ IsArray(embeddedValue)
       /\ \E i \in 1..Len(embeddedValue.v) : IsNull(embeddedValue.v[i])

\* mapHierarchy(doc, collection, d => d._id) rejects.
mapHierarchyThrows(doc, collection) ==
    LET entries == HierarchyEntries(collection)
    IN \E e \in 1..Len(entries) : MappedFieldThrows(doc, entries[e])

RECURSIVE MapFrom(_, _, _)
MapFrom(doc, entries, i) ==
    IF i > Len(entries) THEN doc
    ELSE MapFrom([doc EXCEPT !.emb = (entries[i].name :> MappedField(doc, entries[i])) @@ @],
                 entries, i + 1)

mapHierarchy(doc, collection) == MapFrom(doc, HierarchyEntries(collection), 1)

(***************************************************************************)
(* packDoc's callback (the fn given to applyHierarchy)                     *)
(***************************************************************************)
\* delete doc._key
DeleteKey(doc) == [doc EXCEPT !.key = None]

RECURSIVE UnkeyDoc(_, _)
\* The document d once the object label has lost its _key: d itself when it
\* is that object, and every occurrence of the object inside d.
UnkeyDoc(d, label) ==
    [d EXCEPT !.key = IF d.obj = label THEN None ELSE @,
              !.emb = [f \in DOMAIN d.emb |->
                          IF d.emb[f].t \in {"arr", "obj"}
                          THEN [d.emb[f] EXCEPT !.v =
                                   [i \in 1..Len(d.emb[f].v) |->
                                       UnkeyDoc(d.emb[f].v[i], label)]]
                          ELSE d.emb[f]]]

\* delete doc._key changes the object in place: the calls td as they are
\* once the object doc has lost its key.  An object that occurs once is in no
\* other call.
DeleteKeyInPlace(doc, td) ==
    IF doc.obj = "own" THEN td
    ELSE [n \in 1..Len(td) |-> [td[n] EXCEPT !.doc = UnkeyDoc(@, doc.obj)]]

RECURSIVE structuredClone(_)
\* structuredClone(doc): a copy, made of objects of its own.
structuredClone(d) ==
    [d EXCEPT !.obj = IF IsNull(d) THEN @ ELSE "own",
              !.emb = [f \in DOMAIN d.emb |->
                          IF d.emb[f].t \in {"arr", "obj"}
                          THEN [d.emb[f] EXCEPT !.v =
                                   [i \in 1..Len(d.emb[f].v) |->
                                       structuredClone(d.emb[f].v[i])]]
                          ELSE d.emb[f]]]

Put(k, v) == [op |-> "put", key |-> k, value |-> v]
Del(k) == [op |-> "del", key |-> k, value |-> Doc(None, Undefined, Undefined, NoFields)]

(***************************************************************************)
(* The store: valueEncoding "json", keys in lexicographic order            *)
(***************************************************************************)
\* JSON.stringify of one mapped field: undefined array elements become null.
JsonField(x) ==
    IF x.t = "ids"
    THEN [x EXCEPT !.v = [i \in 1..Len(x.v) |-> IF x.v[i] = Undefined THEN Null ELSE x.v[i]]]
    ELSE x

\* JSON.parse(JSON.stringify(value)): a property whose value is undefined is
\* dropped.
JsonValue(value) ==
    LET kept == {f \in DOMAIN value.emb :
                    ~(value.emb[f].t = "id" /\ value.emb[f].v[1] = Undefined)}
    IN [value EXCEPT !.emb = [f \in kept |-> JsonField(value.emb[f])]]

RECURSIVE ApplyFrom(_, _, _)
\* The store after the operations i.. of the batch, applied in order.
ApplyFrom(s, ops, i) ==
    IF i > Len(ops) THEN s
    ELSE LET o == ops[i]
             k == o.key[1]
         IN ApplyFrom(IF o.op = "put"
                      THEN (k :> JsonValue(o.value)) @@ s
                      ELSE [x \in DOMAIN s \ {k} |-> s[x]],
                      ops, i + 1)

\* batch.write(): every operation of the batch, atomically.
BatchWrite(s, ops) == ApplyFrom(s, ops, 1)

(***************************************************************************)
(* Key order of the store (LevelDB's bytewise comparator)                  *)
(***************************************************************************)
\* The tokens of the model's keys in bytewise order ("!" is the least byte
\* that occurs, so comparing token by token compares the strings).
TokenOrder ==
    <<"!", "A1", "A2", "A3", "A4", "A5", "A6", "C1", "C2", "C3", "D1", "D2", "E1", "I1",
      "I2", "I3", "I4", "S1", "T1", "T2", "T3", "T4", "T5", "Z9", "abc",
      "actors", "actors.items", "cards", "cards.cards", "scenes",
      "scenes.tokens", "scenes.tokens.delta", "tokens", "tokens.delta", "w">>

TokenRank(tok) == CHOOSE i \in 1..Len(TokenOrder) : TokenOrder[i] = tok

RECURSIVE KeyLessFrom(_, _, _)
KeyLessFrom(a, b, i) ==
    IF i > Len(a) THEN i <= Len(b)
    ELSE IF i > Len(b) THEN FALSE
    ELSE IF a[i] = b[i] THEN KeyLessFrom(a, b, i + 1)
    ELSE TokenRank(a[i]) < TokenRank(b[i])

\* a sorts strictly before b.
KeyLess(a, b) == KeyLessFrom(a, b, 1)

LeastKey(ks) == CHOOSE k \in ks : \A o \in ks \ {k} : KeyLess(k, o)
GreatestKey(ks) == CHOOSE k \in ks : \A o \in ks \ {k} : KeyLess(o, k)

RECURSIVE SortedKeys(_)
\* db.keys().all(): the keys in ascending order.
SortedKeys(ks) ==
    IF ks = {} THEN <<>>
    ELSE <<LeastKey(ks)>> \o SortedKeys(ks \ {LeastKey(ks)})

(***************************************************************************)
(* Inputs: source documents, inclusion hooks, initial store contents       *)
(***************************************************************************)
\* The key "w!<collection>!<id>".
K(c, i) == <<"w", "!", c, "!", i>>

Sword == Doc(Some(K("actors.items", "I1")), "I1", "Sword", NoFields)
\* The worked example: an actor with one item.
Hero == Doc(Some(K("actors", "A1")), "A1", "Hero", [items |-> Arr(<<Sword>>)])

Curse == Doc(Some(K("actors.items", "E1")), "E1", "Curse", NoFields)
Axe == Doc(Some(K("actors.items", "I2")), "I2", "Axe", [effects |-> Arr(<<Curse>>)])
\* An item without _id.
Bow == Doc(Some(K("actors.items", "I3")), Undefined, "Bow", NoFields)
\* Two items in source order, the first with an effect; effects: null.
Party == Doc(Some(K("actors", "A2")), "A2", "Party",
             [items |-> Arr(<<Axe, Bow>>), effects |-> NullField])

Dagger == Doc(Some(K("actors.items", "I4")), "I4", "Dagger", NoFields)
\* The same key twice in one file.
Twins == Doc(Some(K("actors", "A3")), "A3", "Twins", [items |-> Arr(<<Dagger, Dagger>>)])

\* One object twice in a list: items: [&i {...}, *i] in a YAML file.
SharedDagger == Shared(Dagger, "&i")
Aliased == Doc(Some(K("actors", "A5")), "A5", "Aliased",
               [items |-> Arr(<<SharedDagger, SharedDagger>>)])

\* A list that holds null.
Holed == Doc(Some(K("actors", "A6")), "A6", "Holed", [items |-> Arr(<<NullElem>>)])

\* A Sequence field that holds one object instead of an array.
Odd == Doc(Some(K("actors", "A4")), "A4", "Odd", [items |-> Obj(Sword)])

\* No _key at all.
NoKeyDoc == Doc(None, "X1", "Lost", NoFields)
\* A _key without "!".
FlatKeyDoc == Doc(Some(<<"abc">>), "B1", "Flat", [items |-> Arr(<<Sword>>)])

\* A _key that is the empty string.
EmptyKeyDoc == Doc(Some(<<>>), "B2", "Blank", NoFields)

Delta == Doc(Some(K("scenes.tokens.delta", "D1")), "D1", "Delta", NoFields)
TokenA == Doc(Some(K("scenes.tokens", "T1")), "T1", "TokenA", [delta |-> Obj(Delta)])
TokenB == Doc(Some(K("scenes.tokens", "T2")), "T2", "TokenB", [delta |-> NullField])
TokenC == Doc(Some(K("scenes.tokens", "T3")), "T3", "TokenC", NoFields)
\* Tokens whose Singleton field holds a document, null, nothing.
Scene == Doc(Some(K("scenes", "S1")), "S1", "Scene", [tokens |-> Arr(<<TokenA, TokenB, TokenC>>)])

\* A Singleton field that holds an array.
OddToken == Doc(Some(K("tokens", "T4")), "T4", "OddToken", [delta |-> Arr(<<Delta>>)])
\* A Singleton field whose document has no _id.
LooseDelta == Doc(Some(K("tokens.delta", "D2")), Undefined, "Loose", NoFields)
LooseToken == Doc(Some(K("tokens", "T5")), "T5", "LooseToken", [delta |-> Obj(LooseDelta)])

CardC == Doc(Some(K("cards.cards", "C3")), "C3", "CardC", NoFields)
CardB == Doc(Some(K("cards.cards", "C2")), "C2", "CardB", [cards |-> Arr(<<CardC>>)])
\* The collection "cards" embeds the field "cards".
Deck == Doc(Some(K("cards", "C1")), "C1", "Deck", [cards |-> Arr(<<CardB>>)])

Documents == {Hero, Party, Twins, Aliased, Holed, Odd, NoKeyDoc, FlatKeyDoc,
              EmptyKeyDoc, Scene, OddToken, LooseToken, Deck}

\* What decoding a file gives: Some(document), or None when the contents are
\* not valid JSON/YAML (the decoder throws).
Contents == {Some(d) : d \in Documents} \cup {None}

RECURSIVE SeqsUpTo(_, _)
SeqsUpTo(S, n) ==
    IF n = 0 THEN {<<>>}
    ELSE LET shorter == SeqsUpTo(S, n - 1)
         IN shorter \cup {Append(q, x) : q \in {r \in shorter : Len(r) = n - 1}, x \in S}

\* transformEntry: absent, or a function of the document.
Hooks == {"absent", "true", "false", "null", "throws", "dropHero"}

\* The outcome of await transformEntry?.(doc).
HookResult(h, doc) ==
    CASE h = "absent"   -> "undefined"
      [] h = "true"     -> "true"
      [] h = "false"    -> "false"
      [] h = "null"     -> "null"
      [] h = "throws"   -> "throws"
      [] h = "dropHero" -> IF doc.id = "A1" THEN "false" ELSE "undefined"

\* Mutant of IsExcluded: any falsy result excludes the document.
IsExcludedFalsy(result) == result \in {"false", "null", "undefined"}

\* await transformEntry?.(doc) === false
IsExcluded(result) == result = "false"

\* Store contents left by earlier runs.
OldValue == Doc(None, "OLD", Undefined, NoFields)
StaleKey == K("actors", "Z9")
InitialStores ==
    { <<>>,
      StaleKey :> OldValue,
      (Hero.key[1] :> OldValue) @@ (Sword.key[1] :> OldValue) @@ (StaleKey :> OldValue) }

(***************************************************************************)
(* compileClassicLevel                                                     *)
(***************************************************************************)
\* The entrypoint calls compilePack(src, dest) without options.
Entries(h) == IF h = "absent" THEN {"call", "then"} ELSE {"call"}

Init ==
    /\ files \in SeqsUpTo(Contents, MaxFiles)
    /\ hook \in Hooks
    /\ entrypoint \in Entries(hook)
    /\ entryState = "pending"
    /\ reported = <<>>
    /\ dir = <<>>
    /\ recursive = FALSE
    /\ found = <<>>
    /\ store \in InitialStores
    /\ store0 = store
    /\ handle = "none"
    /\ batch = <<>>
    /\ seenKeys = {}
    /\ pc = "start"
    /\ fi = 1
    /\ todo = <<>>
    /\ local = None
    /\ run = 1
    /\ visited = <<>>
    /\ writes = 0
    /\ compacted = <<>>
    /\ firstStore = None
    /\ err = ""

\* An exception leaves compileClassicLevel: nothing after the throw runs.
Throw(kind) ==
    /\ pc' = "failed"
    /\ err' = kind

\* new ClassicLevel(pack, ...), db.batch(), new Set().
Open ==
    /\ pc = "start"
    /\ pc' = "files"
    /\ handle' = "open"
    /\ batch' = <<>>
    /\ seenKeys' = {}
    /\ fi' = 1
    /\ todo' = <<>>
    /\ local' = None
    /\ store0' = store
    /\ visited' = <<>>
    /\ writes' = 0
    /\ compacted' = <<>>
    /\ UNCHANGED <<entryVars, scanVars, files, hook, store, run, firstStore, err>>

\* The file the loop is at, decoded.
AtFile == pc = "files" /\ fi <= Len(files)
CurrentDoc == files[fi][1]

\* Mutant of FileDecodeError: the error is noted and the loop goes on to the
\* next file.
FileDecodeErrorSkipped ==
    /\ AtFile
    /\ files[fi] = None
    /\ err' = "decode"
    /\ fi' = fi + 1
    /\ UNCHANGED <<entryVars, scanVars, local, files, hook, store, store0, handle, batch,
                   seenKeys, pc, todo, run, visited, writes, compacted,
                   firstStore>>

\* load(contents) / JSON.parse(contents) throws.
FileDecodeError ==
    /\ AtFile
    /\ files[fi] = None
    /\ Throw("decode")
    /\ UNCHANGED <<entryVars, scanVars, local, files, hook, store, store0, handle, batch, seenKeys, fi, todo,
                   run, visited, writes, compacted, firstStore>>

\* doc._key.split("!") on a document without _key: a TypeError.
FileNoKey ==
    /\ AtFile
    /\ files[fi] # None
    /\ CurrentDoc.key = None
    /\ Throw("nokey")
    /\ UNCHANGED <<entryVars, scanVars, local, files, hook, store, store0, handle, batch, seenKeys, fi, todo,
                   run, visited, writes, compacted, firstStore>>

HasKey == AtFile /\ files[fi] # None /\ CurrentDoc.key # None

\* transformEntry throws (or its promise rejects).
FileHookThrows ==
    /\ HasKey
    /\ HookResult(hook, CurrentDoc) = "throws"
    /\ Throw("hook")
    /\ UNCHANGED <<entryVars, scanVars, local, files, hook, store, store0, handle, batch, seenKeys, fi, todo,
                   run, visited, writes, compacted, firstStore>>

\* if (await transformEntry?.(doc) === false) continue;
FileExcluded ==
    /\ HasKey
    /\ IsExcluded(HookResult(hook, CurrentDoc))
    /\ fi' = fi + 1
    /\ UNCHANGED <<entryVars, scanVars, local, files, hook, store, store0, handle, batch, seenKeys, pc, todo,
                   run, visited, writes, compacted, firstStore, err>>

\* await packDoc(doc, collection): the first apply() call is pending.
FileIncluded ==
    /\ HasKey
    /\ HookResult(hook, CurrentDoc) # "throws"
    /\ ~IsExcluded(HookResult(hook, CurrentDoc))
    /\ todo' = <<Call(CurrentDoc, CollectionOf(CurrentDoc.key[1]))>>
    /\ pc' = "doc"
    /\ UNCHANGED <<entryVars, scanVars, local, files, hook, store, store0, handle, batch, seenKeys, fi,
                   run, visited, writes, compacted, firstStore, err>>

AtCall == pc = "doc" /\ todo # <<>>

\* fn takes the key and removes it from the node, in place; the key was
\* already packed and fn throws.
VisitDuplicate ==
    /\ AtCall
    /\ LET doc == Head(todo).doc
           collection == Head(todo).collection
       IN /\ doc.key \in seenKeys
          /\ todo' = DeleteKeyInPlace(doc, <<Call(DeleteKey(doc), collection)>>
                                              \o Tail(todo))
    /\ Throw("duplicate")
    /\ UNCHANGED <<entryVars, scanVars, local, files, hook, store, store0, handle, batch, seenKeys, fi,
                   run, visited, writes, compacted, firstStore>>

\* Mutant of VisitSeen: the copy is taken before delete doc._key.
VisitSeenKeepKey ==
    /\ AtCall
    /\ LET doc == Head(todo).doc
           collection == Head(todo).collection
       IN /\ doc.key \notin seenKeys
          /\ todo' = DeleteKeyInPlace(doc, <<Call(DeleteKey(doc), collection)>>
                                              \o Tail(todo))
          /\ seenKeys' = seenKeys \cup {doc.key}
          /\ local' = Some([key |-> doc.key, value |-> structuredClone(doc)])
    /\ pc' = "map"
    /\ UNCHANGED <<entryVars, scanVars, files, hook, store, store0, handle, batch, fi,
                   run, visited, writes, compacted, firstStore, err>>

\* fn(doc, collection) up to its await: the key is taken and removed from
\* the node, in place; it is new, so it is recorded; value is the copy of the
\* node.  The call then waits for mapHierarchy(value, collection, d => d._id).
VisitSeen ==
    /\ AtCall
    /\ LET doc == Head(todo).doc
           collection == Head(todo).collection
       IN /\ doc.key \notin seenKeys
          /\ todo' = DeleteKeyInPlace(doc, <<Call(DeleteKey(doc), collection)>>
                                              \o Tail(todo))
          /\ seenKeys' = seenKeys \cup {doc.key}
          /\ local' = Some([key |-> doc.key,
                            value |-> structuredClone(DeleteKey(doc))])
    /\ pc' = "map"
    /\ UNCHANGED <<entryVars, scanVars, files, hook, store, store0, handle, batch, fi,
                   run, visited, writes, compacted, firstStore, err>>

\* fn is at its await, the call it belongs to being the first of todo.
AtAwait == pc = "map"

\* await mapHierarchy(value, collection, d => d._id) rejects: batch.put is
\* not reached.
VisitMapFails ==
    /\ AtAwait
    /\ mapHierarchyThrows(local[1].value, Head(todo).collection)
    /\ Throw("map")
    /\ UNCHANGED <<entryVars, scanVars, local, files, hook, store, store0, handle, batch, seenKeys, fi, todo,
                   run, visited, writes, compacted, firstStore>>

\* batch.put(undefined, value) throws.
VisitInvalidKey ==
    /\ AtAwait
    /\ ~mapHierarchyThrows(local[1].value, Head(todo).collection)
    /\ local[1].key = None
    /\ Throw("invalidkey")
    /\ UNCHANGED <<entryVars, scanVars, local, files, hook, store, store0, handle, batch, seenKeys, fi, todo,
                   run, visited, writes, compacted, firstStore>>

\* Mutant of VisitPut: db.put instead of batch.put.
VisitPutDirect ==
    /\ AtAwait
    /\ LET doc == Head(todo).doc
           collection == Head(todo).collection
           key == local[1].key
           value == local[1].value
       IN /\ ~mapHierarchyThrows(value, collection)
          /\ key # None
          /\ store' = (key[1] :> JsonValue(mapHierarchy(value, collection))) @@ store
          /\ visited' = Append(visited, key[1])
          /\ todo' = applyHierarchy(doc, collection) \o Tail(todo)
    /\ pc' = "doc"
    /\ UNCHANGED <<entryVars, scanVars, local, files, hook, batch, store0, handle, seenKeys,
                   fi, run, writes, compacted, firstStore, err>>

\* Mutant of VisitPut: mapHierarchy works on the node itself instead of a
\* copy, so the traversal goes on from the normalized node.
VisitPutNoClone ==
    /\ AtAwait
    /\ LET doc == Head(todo).doc
           collection == Head(todo).collection
           key == local[1].key
           value == local[1].value
       IN /\ ~mapHierarchyThrows(value, collection)
          /\ key # None
          /\ batch' = Append(batch, Put(key, mapHierarchy(value, collection)))
          /\ visited' = Append(visited, key[1])
          /\ todo' = applyHierarchy(mapHierarchy(doc, collection), collection)
                        \o Tail(todo)
    /\ pc' = "doc"
    /\ UNCHANGED <<entryVars, scanVars, local, files, hook, store, store0, handle, seenKeys,
                   fi, run, writes, compacted, firstStore, err>>

\* Mutant of VisitPut: the call that was made stays pending.
VisitPutNoPop ==
    /\ AtAwait
    /\ LET doc == Head(todo).doc
           collection == Head(todo).collection
           key == local[1].key
           value == local[1].value
       IN /\ ~mapHierarchyThrows(value, collection)
          /\ key # None
          /\ batch' = Append(batch, Put(key, mapHierarchy(value, collection)))
          /\ visited' = Append(visited, key[1])
          /\ todo' = applyHierarchy(doc, collection) \o todo
    /\ pc' = "doc"
    /\ UNCHANGED <<entryVars, scanVars, local, files, hook, store, store0, handle, seenKeys,
                   fi, run, writes, compacted, firstStore, err>>

\* Mutant of VisitPut: the calls for the embedded documents are queued behind
\* whatever was pending.
VisitPutBreadthFirst ==
    /\ AtAwait
    /\ LET doc == Head(todo).doc
           collection == Head(todo).collection
           key == local[1].key
           value == local[1].value
       IN /\ ~mapHierarchyThrows(value, collection)
          /\ key # None
          /\ batch' = Append(batch, Put(key, mapHierarchy(value, collection)))
          /\ visited' = Append(visited, key[1])
          /\ todo' = Tail(todo) \o applyHierarchy(doc, collection)
    /\ pc' = "doc"
    /\ UNCHANGED <<entryVars, scanVars, local, files, hook, store, store0, handle, seenKeys,
                   fi, run, writes, compacted, firstStore, err>>

\* fn after its await: mapHierarchy has normalized value and batch.put(key,
\* value) stages it; fn returns and apply makes the calls for the embedded
\* documents of the node, before whatever was pending.
VisitPut ==
    /\ AtAwait
    /\ LET doc == Head(todo).doc
           collection == Head(todo).collection
           key == local[1].key
           value == local[1].value
       IN /\ ~mapHierarchyThrows(value, collection)
          /\ key # None
          /\ batch' = Append(batch, Put(key, mapHierarchy(value, collection)))
          /\ visited' = Append(visited, key[1])
          /\ todo' = applyHierarchy(doc, collection) \o Tail(todo)
    /\ pc' = "doc"
    /\ UNCHANGED <<entryVars, scanVars, local, files, hook, store, store0, handle, seenKeys,
                   fi, run, writes, compacted, firstStore, err>>

\* Mutant of DocDone: the seen keys are kept per file.
DocDonePerFile ==
    /\ pc = "doc"
    /\ todo = <<>>
    /\ pc' = "files"
    /\ fi' = fi + 1
    /\ seenKeys' = {}
    /\ UNCHANGED <<entryVars, scanVars, local, files, hook, store, store0, handle, batch, todo,
                   run, visited, writes, compacted, firstStore, err>>

\* packDoc has returned: the loop goes to the next file.
DocDone ==
    /\ pc = "doc"
    /\ todo = <<>>
    /\ pc' = "files"
    /\ fi' = fi + 1
    /\ UNCHANGED <<entryVars, scanVars, local, files, hook, store, store0, handle, batch, seenKeys, todo,
                   run, visited, writes, compacted, firstStore, err>>

AfterFiles == pc = "files" /\ fi > Len(files)

RECURSIVE DeletesInverted(_, _, _)
\* Mutant of DeletesFrom: the test of the prune loop is inverted.
DeletesInverted(keys, seen, i) ==
    IF i > Len(keys) THEN <<>>
    ELSE (IF Some(keys[i]) \in seen THEN <<Del(Some(keys[i]))>> ELSE <<>>)
         \o DeletesInverted(keys, seen, i + 1)

\* Mutant of DeletesFrom: the prune loop is left out.
DeletesNone(keys, seen, i) == <<>>

RECURSIVE DeletesFrom(_, _, _)
\* The batch.del calls of the loop over the existing keys.
DeletesFrom(keys, seen, i) ==
    IF i > Len(keys) THEN <<>>
    ELSE (IF Some(keys[i]) \in seen THEN <<>> ELSE <<Del(Some(keys[i]))>>)
         \o DeletesFrom(keys, seen, i + 1)

\* Mutant of Prune: the stale keys are deleted from the store at once instead
\* of being staged.
PruneDirect ==
    /\ AfterFiles
    /\ store' = [k \in (DOMAIN store) \cap {key[1] : key \in seenKeys \ {None}}
                    |-> store[k]]
    /\ pc' = "write"
    /\ UNCHANGED <<entryVars, scanVars, local, files, hook, store0, handle, batch,
                   seenKeys, fi, todo, run, visited, writes, compacted,
                   firstStore, err>>

\* for (const key of await db.keys().all()) if (!seenKeys.has(key)) batch.del(key)
Prune ==
    /\ AfterFiles
    /\ batch' = batch \o DeletesFrom(SortedKeys(DOMAIN store), seenKeys, 1)
    /\ pc' = "write"
    /\ UNCHANGED <<entryVars, scanVars, local, files, hook, store, store0, handle, seenKeys, fi, todo,
                   run, visited, writes, compacted, firstStore, err>>

\* db.keys().all() rejects.
PruneFails ==
    /\ AfterFiles
    /\ Throw("keys")
    /\ UNCHANGED <<entryVars, scanVars, local, files, hook, store, store0, handle, batch, seenKeys, fi, todo,
                   run, visited, writes, compacted, firstStore>>

\* await batch.write()
Write ==
    /\ pc = "write"
    /\ store' = BatchWrite(store, batch)
    /\ writes' = writes + 1
    /\ pc' = "compact"
    /\ UNCHANGED <<entryVars, scanVars, local, files, hook, store0, handle, batch, seenKeys, fi, todo,
                   run, visited, compacted, firstStore, err>>

\* batch.write() rejects: LevelDB applies a write batch entirely or not at all.
WriteFails ==
    /\ pc = "write"
    /\ Throw("write")
    /\ UNCHANGED <<entryVars, scanVars, local, files, hook, store, store0, handle, batch, seenKeys, fi, todo,
                   run, visited, writes, compacted, firstStore>>

\* What iterator.next() gives with limit 1: the first key in the iterator's
\* direction, or None (undefined) when the store is empty.
FirstKey(s) == IF DOMAIN s = {} THEN None ELSE Some(LeastKey(DOMAIN s))
LastKey(s) == IF DOMAIN s = {} THEN None ELSE Some(GreatestKey(DOMAIN s))

\* The truthiness of a key: undefined and the empty string are falsy.
KeyTruthy(k) == k # None /\ k[1] # <<>>

\* compactClassicLevel: the first and last key, and compactRange when both
\* are truthy.  The result is the list of compactRange calls made.
compactClassicLevel(s) ==
    IF KeyTruthy(FirstKey(s)) /\ KeyTruthy(LastKey(s))
    THEN <<<<FirstKey(s)[1], LastKey(s)[1]>>>>
    ELSE <<>>

Compact ==
    /\ pc = "compact"
    /\ compacted' = compacted \o compactClassicLevel(store)
    /\ pc' = "close"
    /\ UNCHANGED <<entryVars, scanVars, local, files, hook, store, store0, handle, batch, seenKeys, fi, todo,
                   run, visited, writes, firstStore, err>>

\* db.compactRange(firstKey, lastKey) is called and rejects.
CompactRangeFails ==
    /\ pc = "compact"
    /\ compactClassicLevel(store) # <<>>
    /\ compacted' = compacted \o compactClassicLevel(store)
    /\ Throw("compact")
    /\ UNCHANGED <<entryVars, scanVars, local, files, hook, store, store0, handle, batch, seenKeys, fi, todo,
                   run, visited, writes, firstStore>>

\* An iterator of compactClassicLevel rejects, before any compactRange call.
CompactFails ==
    /\ pc = "compact"
    /\ Throw("compact")
    /\ UNCHANGED <<entryVars, scanVars, local, files, hook, store, store0, handle, batch, seenKeys, fi, todo,
                   run, visited, writes, compacted, firstStore>>

\* await db.close()
Close ==
    /\ pc = "close"
    /\ handle' = "closed"
    /\ pc' = "done"
    /\ firstStore' = IF firstStore = None THEN Some(store) ELSE firstStore
    /\ UNCHANGED <<entryVars, scanVars, local, files, hook, store, store0, batch, seenKeys, fi, todo,
                   run, visited, writes, compacted, err>>

\* db.close() rejects.
CloseFails ==
    /\ pc = "close"
    /\ Throw("close")
    /\ UNCHANGED <<entryVars, scanVars, local, files, hook, store, store0, handle, batch, seenKeys, fi, todo,
                   run, visited, writes, compacted, firstStore>>

\* compilePack is called a second time on the same source tree and
\* destination.
Again ==
    /\ pc = "done"
    /\ run = 1
    /\ run' = 2
    /\ pc' = "start"
    /\ UNCHANGED <<entryVars, scanVars, local, files, hook, store, store0, handle, batch, seenKeys, fi, todo,
                   visited, writes, compacted, firstStore, err>>

\* index.mjs: compilePack(src, dest).then(onFulfilled) has no rejection
\* handler and the try block was left when the promise was returned, so the
\* rejection reaches no catch.  The catch block, the only caller of
\* core.setFailed, runs on a synchronous throw inside try, and compilePack,
\* an async function, never throws synchronously.
EntryUnhandled ==
    /\ pc = "failed"
    /\ entrypoint = "then"
    /\ entryState = "pending"
    /\ entryState' = "unhandled"
    /\ UNCHANGED <<scanVars, local, entrypoint, reported, files, hook, store, store0, handle,
                   batch, seenKeys, pc, fi, todo, run, visited, writes,
                   compacted, firstStore, err>>

Next ==
    \/ Open
    \/ FileDecodeError
    \/ FileNoKey
    \/ FileHookThrows
    \/ FileExcluded
    \/ FileIncluded
    \/ VisitDuplicate
    \/ VisitSeen
    \/ VisitInvalidKey
    \/ VisitMapFails
    \/ VisitPut
    \/ DocDone
    \/ Prune
    \/ PruneFails
    \/ Write
    \/ WriteFails
    \/ Compact
    \/ CompactFails
    \/ CompactRangeFails
    \/ Close
    \/ CloseFails
    \/ Again
    \/ EntryUnhandled

Spec == Init /\ [][Next]_vars

(***************************************************************************)
(* findSourceFiles: the enumeration of the source directory                *)
(***************************************************************************)
MaxEntries == 2

\* The entries readdirSync(root, {withFileTypes: true}) gives: regular
\* files, directories (with their own entries) and entries that are neither.
File(n) == [name |-> n, kind |-> "file", entries |-> <<>>]
Dir(n, es) == [name |-> n, kind |-> "dir", entries |-> es]
Other(n) == [name |-> n, kind |-> "other", entries |-> <<>>]

\* join(root, entry.name)
Join(root, n) == Append(root, n)

\* The source directory.
Src == <<"src">>

\* An empty subdirectory, one holding a file, one holding a file and a
\* directory with a file.
SubDirs ==
    {Dir("d", <<>>),
     Dir("d", <<File("a.json")>>),
     Dir("d", <<File("b.json"), Dir("e", <<File("a.json")>>)>>)}

DirEntries ==
    {File("a.json"), File("b.json"), File("c.yml"), Other("link")} \cup SubDirs

\* The entries of one directory have different names.
DistinctNames(es) ==
    \A i, j \in 1..Len(es) : i # j => es[i].name # es[j].name

RECURSIVE FindFrom(_, _, _, _)
\* The loop of findSourceFiles from entry i on.  With recursive set, a
\* directory entry makes the code evaluate { yaml, recursive }, where yaml is
\* not declared in findSourceFiles nor in the module: a ReferenceError is
\* thrown before the recursive call is made.
FindFrom(root, es, rec, i) ==
    IF i > Len(es) THEN [thrown |-> FALSE, files |-> <<>>]
    ELSE IF es[i].kind = "dir" /\ rec THEN [thrown |-> TRUE, files |-> <<>>]
    ELSE LET rest == FindFrom(root, es, rec, i + 1)
         IN IF es[i].kind # "file" \/ rest.thrown THEN rest
            ELSE [rest EXCEPT !.files = <<Join(root, es[i].name)>> \o @]

findSourceFiles(root, es, rec) == FindFrom(root, es, rec, 1)

\* compilePack is called on a source directory with the option recursive.
InitScan ==
    /\ dir \in {es \in SeqsUpTo(DirEntries, MaxEntries) : DistinctNames(es)}
    /\ recursive \in BOOLEAN
    /\ found = <<>>
    /\ pc = "scan"
    /\ files = <<>>
    /\ hook = "absent"
    /\ entrypoint = "call"
    /\ entryState = "pending"
    /\ reported = <<>>
    /\ store = <<>>
    /\ store0 = store
    /\ handle = "none"
    /\ batch = <<>>
    /\ seenKeys = {}
    /\ fi = 1
    /\ todo = <<>>
    /\ local = None
    /\ run = 1
    /\ visited = <<>>
    /\ writes = 0
    /\ compacted = <<>>
    /\ firstStore = None
    /\ err = ""

\* const files = findSourceFiles(src, { yaml, recursive }) returns.
FindSourceFiles ==
    /\ pc = "scan"
    /\ ~findSourceFiles(Src, dir, recursive).thrown
    /\ found' = findSourceFiles(Src, dir, recursive).files
    /\ pc' = "scanned"
    /\ UNCHANGED <<entryVars, local, dir, recursive, files, hook, store, store0, handle,
                   batch, seenKeys, fi, todo, run, visited, writes, compacted,
                   firstStore, err>>

\* findSourceFiles throws: compilePack rejects before compileClassicLevel is
\* called.
FindSourceFilesThrows ==
    /\ pc = "scan"
    /\ findSourceFiles(Src, dir, recursive).thrown
    /\ Throw("scan")
    /\ UNCHANGED <<entryVars, scanVars, local, files, hook, store, store0, handle, batch,
                   seenKeys, fi, todo, run, visited, writes, compacted,
                   firstStore>>

NextScan ==
    \/ FindSourceFiles
    \/ FindSourceFilesThrows

SpecScan == InitScan /\ [][NextScan]_vars

(***************************************************************************)
(* Vocabulary of the properties: the nodes of a source document, defined   *)
(* by structural recursion on the document tree                            *)
(***************************************************************************)
\* The child documents a field holds: the elements of a list, or the one
\* nested document.
FieldDocs(x) ==
    IF x.t = "arr"
    THEN IF \E i \in 1..Len(x.v) : IsNull(x.v[i])
         THEN SelectSeq(x.v, LAMBDA d : ~IsNull(d))
         ELSE x.v
    ELSE IF x.t = "obj" THEN <<x.v[1]>> ELSE <<>>

RECURSIVE NodeList(_, _), FieldsList(_, _, _), ForestList(_, _, _)
\* The nodes of the tree rooted at doc, parents first, children in schema
\* and source order, each with the collection it belongs to.
NodeList(doc, collection) ==
    <<Call(doc, collection)>> \o FieldsList(doc, HierarchyEntries(collection), 1)
FieldsList(doc, entries, i) ==
    IF i > Len(entries) THEN <<>>
    ELSE ForestList(FieldDocs(Field(doc, entries[i].name)), entries[i].name, 1)
         \o FieldsList(doc, entries, i + 1)
ForestList(docs, fname, j) ==
    IF j > Len(docs) THEN <<>>
    ELSE NodeList(docs[j], Some(fname)) \o ForestList(docs, fname, j + 1)

\* File i decodes to a document with a key.
Keyed(i) == files[i] # None /\ files[i][1].key # None
\* File i is a keyed document the hook does not exclude.
Included(i) ==
    /\ Keyed(i)
    /\ HookResult(hook, files[i][1]) \in {"true", "undefined", "null"}
\* File i is a keyed document for which the hook returns exactly false.
Excluded(i) == Keyed(i) /\ HookResult(hook, files[i][1]) = "false"

FileNodes(i) == NodeList(files[i][1], CollectionOf(files[i][1].key[1]))

RECURSIVE SourceNodesFrom(_)
\* The nodes of the included documents of files i.., in file order.
SourceNodesFrom(i) ==
    IF i > Len(files) THEN <<>>
    ELSE (IF Included(i) THEN FileNodes(i) ELSE <<>>) \o SourceNodesFrom(i + 1)

SourceNodes == SourceNodesFrom(1)
\* The keys of all nodes of the non-excluded source documents.
SourceKeys == {node.doc.key : node \in SeqToSet(SourceNodes)}
StoreKeys == {Some(k) : k \in DOMAIN store}
PutKeys == {batch[n].key : n \in {m \in 1..Len(batch) : batch[m].op = "put"}}

\* C1: after a compile that returned normally, the key set of the store is
\* exactly the set of keys of the nodes of the non-excluded source documents:
\* none missing, and no pre-existing key that the sources do not produce.
C1_KeySetExact == pc = "done" => StoreKeys = SourceKeys

\* A run that returned, pruned a stale key and wrote a document with
\* descendants.
C1_Witness ==
    /\ pc = "done"
    /\ StaleKey \in DOMAIN store0
    /\ StaleKey \notin DOMAIN store
    /\ Cardinality(DOMAIN store) >= 4

\* A document is being traversed: a call is about to be made, or fn is at
\* its await.
InDocument == pc \in {"doc", "map"}

\* The keys recorded by a call of fn that has staged no put: the key of the
\* call that is at its await or was rejected there.
Unstaged ==
    IF pc = "map" \/ err \in {"map", "invalidkey"} THEN {local[1].key} ELSE {}

\* The call about to be made carries a key that an earlier node of this run
\* carried.
SecondCarrier == AtCall /\ Head(todo).doc.key \in seenKeys

\* The nodes of the included documents that have been visited, as the
\* sources hold them.
VisitedNodes == SubSeq(SourceNodes, 1, Len(visited))

\* C2: duplicate keys are detected over the whole run: no key is ever staged
\* twice, whatever file or key prefix the two nodes have; the seen keys are
\* the staged keys and the key of the call that has not staged yet; a key is
\* recorded only when it is new, before its put is staged; no two of the
\* visited nodes carry the same key in the sources (two objects, or one
\* object occurring twice), and the run reaches the commit only with every
\* node visited; visiting a node whose key is already seen fails the run at
\* that step, and the failed run has committed nothing: the store holds its
\* content from before the run.
C2_DuplicateRejected ==
    /\ [](/\ \A i, j \in 1..Len(visited) : i # j => visited[i] # visited[j]
          /\ {Some(visited[i]) : i \in 1..Len(visited)} \subseteq seenKeys
          /\ seenKeys = {Some(visited[i]) : i \in 1..Len(visited)} \cup Unstaged
          /\ pc = "map" => local[1].key \notin PutKeys
          /\ LET nodes == VisitedNodes
             IN /\ Len(nodes) = Len(visited)
                /\ \A a, b \in 1..Len(nodes) :
                      a # b => nodes[a].doc.key # nodes[b].doc.key
          /\ pc \in {"write", "compact", "close", "done"} =>
                Len(visited) = Len(SourceNodes)
          /\ err = "duplicate" => pc = "failed" /\ writes = 0 /\ store = store0)
    /\ [][SecondCarrier =>
             /\ pc' = "failed" /\ err' = "duplicate"
             /\ seenKeys' = seenKeys
             /\ batch' = batch /\ store' = store0 /\ writes' = 0]_vars
    /\ [][(pc # "start" /\ seenKeys' # seenKeys) =>
             /\ AtCall /\ pc' = "map"
             /\ Head(todo).doc.key \notin seenKeys
             /\ seenKeys' = seenKeys \cup {Head(todo).doc.key}
             /\ batch' = batch]_vars

\* A duplicate found in the second file: the node the run failed at, the
\* first one not visited, carries in the sources a key that a node of the
\* first file carried; the call has removed the key from the node.  The
\* store holds earlier entries.
C2_Witness ==
    /\ err = "duplicate"
    /\ fi = 2
    /\ Len(visited) < Len(SourceNodes)
    /\ SourceNodes[Len(visited) + 1].doc.key
          \in {node.doc.key : node \in SeqToSet(FileNodes(1))}
    /\ SourceNodes[Len(visited) + 1].doc.key \in seenKeys
    /\ Head(todo).doc.key = None
    /\ files[1] # files[2]
    /\ DOMAIN store # {}

\* C3: until batch.write has committed, whatever failure ends the run, the
\* store holds exactly its content from before the run; the staged puts and
\* deletes become visible only together, through the one commit.
C3_AtomicBeforeCommit ==
    /\ writes = 0 => store = store0
    /\ writes # 0 => writes = 1 /\ store = BatchWrite(store0, batch)

\* A run that failed enumerating the existing keys with puts staged, the
\* store holding an entry the commit would have deleted.
C3_Witness ==
    /\ pc = "failed"
    /\ err = "keys"
    /\ Len(batch) >= 2
    /\ StaleKey \in DOMAIN store

\* C4: whenever compileClassicLevel has terminated, by returning or by
\* throwing, the store handle it opened has been closed.
C4_HandleReleased == pc \in {"done", "failed"} => handle = "closed"

\* The keys of the nodes of the document of file i.
FileKeys(i) == {node.doc.key : node \in SeqToSet(FileNodes(i))}

\* C5: a document for which the hook returns exactly false is never
\* traversed; its keys that no included document produces are never seen nor
\* staged, and are absent from the store after a successful run even if an
\* earlier run had written them.  A document for which the hook returns true,
\* undefined or null is included: once the loop is past it all its keys are
\* seen, and after a successful run they are in the store.
C5_ExclusionHook ==
    \A i \in 1..Len(files) :
        /\ Excluded(i) =>
              LET own == FileKeys(i) \ SourceKeys
              IN /\ ~(fi = i /\ InDocument)
                 /\ own \cap seenKeys = {}
                 /\ own \cap PutKeys = {}
                 /\ pc = "done" => own \cap StoreKeys = {}
        /\ Included(i) =>
              /\ fi > i => FileKeys(i) \subseteq seenKeys
              /\ pc = "done" => FileKeys(i) \subseteq StoreKeys

\* A successful run in which the hook excluded the actor an earlier run had
\* written, removing it and its item, while another document was written.
C5_Witness ==
    /\ pc = "done"
    /\ hook = "dropHero"
    /\ Len(files) = 2
    /\ files[1] = Some(Hero)
    /\ Included(2)
    /\ {Hero.key[1], Sword.key[1]} \subseteq DOMAIN store0
    /\ {Hero.key[1], Sword.key[1]} \cap DOMAIN store = {}
    /\ DOMAIN store # {}

\* File i decodes to a document whose key is absent or does not split into
\* at least two "!"-segments.
Malformed(i) ==
    /\ files[i] # None
    /\ \/ files[i][1].key = None
       \/ Len(Split(files[i][1].key[1])) < 2

\* C6: a source document whose key is absent or has fewer than two
\* "!"-segments fails the run: it is never traversed, the loop never gets past
\* it, and nothing is committed once the loop has reached it.
C6_SchemaErrors ==
    \A i \in 1..Len(files) :
        Malformed(i) =>
            /\ ~(fi = i /\ InDocument)
            /\ fi <= i
            /\ fi = i => writes = 0

\* The batch has been committed: the store holds this run's entries.
Committed == writes = 1

\* The image of an _id in the persisted JSON (undefined is written as null
\* inside an array).
PersistedId(id) == IF id = Undefined THEN Null ELSE id

\* The persisted value of a source node.
Persisted(node) == store[node.doc.key[1]]

\* C7: for every node whose Sequence field holds a list of k child nodes, the
\* node's persisted value holds in that field exactly k identifiers, the i-th
\* being the _id of the i-th child of the source list (null where that child
\* has no _id).
C7_SequenceRoundTrip ==
    Committed =>
        \A node \in SeqToSet(SourceNodes) :
            LET entries == HierarchyEntries(node.collection)
            IN \A e \in 1..Len(entries) :
                  LET x == Field(node.doc, entries[e].name)
                  IN (entries[e].type = "Sequence" /\ IsArray(x)) =>
                        /\ entries[e].name \in DOMAIN Persisted(node).emb
                        /\ Persisted(node).emb[entries[e].name].t = "ids"
                        /\ Len(Persisted(node).emb[entries[e].name].v) = Len(x.v)
                        /\ \A i \in 1..Len(x.v) :
                              Persisted(node).emb[entries[e].name].v[i] = PersistedId(x.v[i].id)

\* The actor with two items in source order has been persisted, and its
\* first item with its one effect.
C7_Witness ==
    /\ pc = "done"
    /\ Party.key[1] \in DOMAIN store
    /\ store[Party.key[1]].emb["items"].v = <<"I2", Null>>
    /\ store[Axe.key[1]].emb["effects"].v = <<"E1">>

\* C8 as stated: for every node and every field of its collection's schema,
\* the persisted value contains the field; a Sequence field absent from the
\* source is persisted as the empty sequence, a Singleton field absent or null
\* as null.
C8_AlwaysPresent ==
    Committed =>
        \A node \in SeqToSet(SourceNodes) :
            LET entries == HierarchyEntries(node.collection)
            IN \A e \in 1..Len(entries) :
                  LET x == Field(node.doc, entries[e].name)
                  IN /\ entries[e].name \in DOMAIN Persisted(node).emb
                     /\ (entries[e].type = "Sequence" /\ ~IsArray(x)) =>
                            Persisted(node).emb[entries[e].name] = [t |-> "ids", v |-> <<>>]
                     /\ (entries[e].type = "Singleton" /\ ~Truthy(x)) =>
                            Persisted(node).emb[entries[e].name] = NullField

\* C8, amended: the persisted value contains every field of the schema except
\* a Singleton field whose child document has no _id, which is not persisted
\* at all; a Sequence field that holds no list is persisted as the empty
\* sequence, a Singleton field absent or null as null.
C8_Defaulting ==
    Committed =>
        \A node \in SeqToSet(SourceNodes) :
            LET entries == HierarchyEntries(node.collection)
            IN \A e \in 1..Len(entries) :
                  LET x == Field(node.doc, entries[e].name)
                      lost == /\ entries[e].type = "Singleton"
                              /\ Truthy(x)
                              /\ IdOf(x) = Undefined
                  IN /\ lost <=> entries[e].name \notin DOMAIN Persisted(node).emb
                     /\ (entries[e].type = "Sequence" /\ ~IsArray(x)) =>
                            Persisted(node).emb[entries[e].name] = [t |-> "ids", v |-> <<>>]
                     /\ (entries[e].type = "Singleton" /\ ~Truthy(x)) =>
                            Persisted(node).emb[entries[e].name] = NullField

\* Persisted: a token with delta: null, a token without delta, a scene with
\* none of its other Sequence fields, and a token whose delta has no _id.
C8_Witness ==
    /\ pc = "done"
    /\ {Scene.key[1], TokenB.key[1], TokenC.key[1], LooseToken.key[1]} \subseteq DOMAIN store
    /\ store[TokenB.key[1]].emb["delta"] = NullField
    /\ store[TokenC.key[1]].emb["delta"] = NullField
    /\ store[Scene.key[1]].emb["walls"] = [t |-> "ids", v |-> <<>>]
    /\ "delta" \notin DOMAIN store[LooseToken.key[1]].emb

\* The puts of the batch, in the order they were staged.
Puts == SelectSeq(batch, LAMBDA o : o.op = "put")

\* The two entries of the worked example.
HeroEntries ==
    (K("actors", "A1") :>
        Doc(None, "A1", "Hero",
            [items |-> [t |-> "ids", v |-> <<"I1">>],
             effects |-> [t |-> "ids", v |-> <<>>]]))
    @@ (K("actors.items", "I1") :>
        Doc(None, "I1", "Sword", [effects |-> [t |-> "ids", v |-> <<>>]]))

\* C9: once every source document has been processed, the batch holds exactly
\* one put per node of the included documents, under the node's own key; the
\* staged value is the node without its key, its _id and name unchanged, and
\* every field of its collection's schema holds identifiers (undefined for a
\* child without _id), an empty sequence or null, never a nested document.  Compiling the actor A1 with its
\* item I1 alone leaves exactly the two entries of the worked example.
C9_OneFlatEntryPerNode ==
    /\ pc \in {"write", "compact", "close", "done"} =>
          LET nodes == SourceNodes
              puts == Puts
          IN /\ Len(puts) = Len(nodes)
             /\ \A n \in 1..Len(puts) :
                   LET node == nodes[n]
                       entries == HierarchyEntries(node.collection)
                   IN /\ puts[n].key = node.doc.key
                      /\ puts[n].value.key = None
                      /\ puts[n].value.id = node.doc.id
                      /\ puts[n].value.name = node.doc.name
                      /\ \A e \in 1..Len(entries) :
                            puts[n].value.emb[entries[e].name].t \in {"ids", "id", "null"}
    /\ (pc = "done" /\ files = <<Some(Hero)>> /\ Included(1)) => store = HeroEntries

\* The worked example compiled over a store that held other content.
C9_Witness ==
    /\ pc = "done"
    /\ files = <<Some(Hero)>>
    /\ Included(1)
    /\ StaleKey \in DOMAIN store0
    /\ store = HeroEntries

\* C10: the second compile run, on the same source tree, hook and
\* destination, leaves the store exactly as the first run left it: the same
\* keys, and the same value under every key.
C10_Idempotent == (pc = "done" /\ run = 2) => store = firstStore[1]

\* A second run has returned, over a store of at least three entries it
\* wrote again.
C10_Witness ==
    /\ pc = "done"
    /\ run = 2
    /\ Cardinality(DOMAIN store) >= 3
    /\ Len(Puts) >= 3

\* C11: whenever the compile started by an entrypoint has failed and the
\* entrypoint has dealt with the failure, core.setFailed has been called
\* exactly once, with the error's message; it is never called more than once
\* and the compile is not run again.
C11_FailureReported ==
    /\ Len(reported) <= 1
    /\ (pc = "failed" /\ entrypoint # "call" /\ entryState # "pending") =>
          /\ reported = <<err>>
          /\ run = 1

\* C12: the nodes are visited parents first and in source order: at every
\* moment the keys visited so far are, in order, the first nodes of the
\* included documents listed parent before children, the elements of a list
\* in list order and each element's subtree before the next element; the
\* staged puts follow the same order, one per visited node, so a node's key
\* is recorded and its put staged before any descendant is visited.
C12_PreOrder ==
    LET nodes == SourceNodes
        puts == Puts
    IN /\ Len(visited) <= Len(nodes)
       /\ \A n \in 1..Len(visited) : nodes[n].doc.key = Some(visited[n])
       /\ Len(puts) = Len(visited)
       /\ \A n \in 1..Len(puts) : puts[n].key = Some(visited[n])
       /\ {Some(visited[n]) : n \in 1..Len(visited)} \subseteq seenKeys
       /\ (pc = "map" /\ local[1].key # None) =>
             /\ Len(visited) < Len(nodes)
             /\ nodes[Len(visited) + 1].doc.key = local[1].key

\* A finished run over a document whose first list element has a child of
\* its own and a following sibling, after a document with a nested Singleton.
C12_Witness ==
    /\ pc = "done"
    /\ files = <<Some(Scene), Some(Party)>>
    /\ visited = <<Scene.key[1], TokenA.key[1], Delta.key[1], TokenB.key[1],
                   TokenC.key[1], Party.key[1], Axe.key[1], Curse.key[1],
                   Bow.key[1]>>

\* The number of nodes of the included documents of the files before file i.
NodesBefore(i) == Len(SourceNodes) - Len(SourceNodesFrom(i))

\* The run failed while a source document was being processed.
FailedInDocument ==
    err \in {"decode", "nokey", "hook", "duplicate", "invalidkey", "map"}

\* C13: documents are processed one at a time in file order: between two
\* documents every node of the earlier included documents and no node of a
\* later one has been visited, and while document fi is traversed only its
\* own nodes are added.  An error ends the run where it happens: after a
\* failure in a document nothing changes any more (no later document is
\* decoded, given to the hook or visited), no delete was staged (the existing
\* keys were not enumerated), and nothing was committed or compacted.
C13_SequentialFailFast ==
    /\ [](/\ pc = "files" => Len(visited) = NodesBefore(fi)
          /\ InDocument =>
                LET total == Len(SourceNodes)
                IN /\ Len(visited) >= total - Len(SourceNodesFrom(fi))
                   /\ Len(visited) <= total - Len(SourceNodesFrom(fi + 1))
          /\ err # "" => pc = "failed"
          /\ FailedInDocument =>
                /\ fi <= Len(files)
                /\ Len(visited) <= NodesBefore(fi + 1)
                /\ Puts = batch
                /\ writes = 0
                /\ compacted = <<>>
                /\ store = store0)
    /\ [][pc = "failed" =>
             UNCHANGED <<pc, fi, todo, local, visited, seenKeys, batch, store,
                         writes, compacted, handle, run>>]_vars

\* The first of two documents failed on its second item, its first nodes
\* visited; the second document was never reached and the store kept its
\* earlier entries.
C13_Witness ==
    /\ pc = "failed"
    /\ err = "duplicate"
    /\ files = <<Some(Twins), Some(Hero)>>
    /\ fi = 1
    /\ visited = <<Twins.key[1], Dagger.key[1]>>
    /\ Hero.key[1] \in DOMAIN store
    /\ entryState # "pending"

\* The run failed after batch.write() had committed.
FailedAfterCommit == pc = "failed" /\ err \in {"compact", "close"}

\* Every put and delete of the batch is visible in the store and nothing
\* else differs from the content before the run.
AllVisible ==
    /\ \A n \in 1..Len(batch) :
          IF batch[n].op = "put"
          THEN /\ batch[n].key[1] \in DOMAIN store
               /\ store[batch[n].key[1]] = JsonValue(batch[n].value)
          ELSE batch[n].key[1] \notin DOMAIN store
    /\ \A k \in (DOMAIN store) \cup (DOMAIN store0) :
          (\A n \in 1..Len(batch) : batch[n].key # Some(k)) =>
              /\ k \in (DOMAIN store) \cap (DOMAIN store0)
              /\ store[k] = store0[k]

\* C14 as stated: whenever a run has ended with an error, the store holds
\* its content from before the run.
C14_AllOrNothing == pc = "failed" => store = store0

\* C14 (amended): a run that ends with an error raised before or by
\* batch.write() leaves the store as it was before the run; a run that ends
\* with an error raised by compaction or by closing the handle, after the
\* commit, leaves every put and delete of the run visible.  No failed run
\* leaves only a part of its puts and deletes visible.
C14_AllOrNothingAtCommit ==
    pc = "failed" =>
        IF FailedAfterCommit THEN AllVisible ELSE store = store0

\* Compaction failed after a commit that wrote entries and removed a stale
\* one.
C14_Witness ==
    /\ FailedAfterCommit
    /\ err = "compact"
    /\ StaleKey \in DOMAIN store0
    /\ StaleKey \notin DOMAIN store
    /\ Hero.key[1] \in DOMAIN store
    /\ store # store0

\* The existing keys the run compared with the seen keys and found stale.
StaleKeys == {k \in DOMAIN store0 : Some(k) \notin seenKeys}

\* C15: the batch is committed at most once, only after the file loop has
\* passed every source document and with a delete staged for exactly the
\* existing keys that are not seen; compaction happens only after that
\* commit and while the handle is open, and once compaction is over
\* compactRange has been called once over the range from the store's least
\* key to its greatest key if the store is non-empty, and not at all if the
\* store is empty.
C15_CommitCompactProtocol ==
    /\ writes <= 1
    /\ writes = 1 =>
          /\ fi = Len(files) + 1
          /\ Len(visited) = Len(SourceNodes)
          /\ {batch[n].key : n \in {m \in 1..Len(batch) : batch[m].op = "del"}}
                = {Some(k) : k \in StaleKeys}
    /\ pc = "compact" => writes = 1 /\ compacted = <<>> /\ handle = "open"
    /\ compacted # <<>> => writes = 1
    /\ handle = "closed" => pc \in {"done", "start"} /\ writes = 1
    /\ pc \in {"close", "done"} =>
          /\ writes = 1
          /\ IF DOMAIN store = {} THEN compacted = <<>>
             ELSE /\ Len(compacted) = 1
                  /\ compacted[1][1] \in DOMAIN store
                  /\ compacted[1][2] \in DOMAIN store
                  /\ \A k \in DOMAIN store :
                        /\ k = compacted[1][1] \/ KeyLess(compacted[1][1], k)
                        /\ k = compacted[1][2] \/ KeyLess(k, compacted[1][2])

\* The schema as a graph: the embedded field names of a collection name.
EmbeddedNames(c) ==
    IF c \in DOMAIN HIERARCHY
    THEN {HIERARCHY[c][n].name : n \in 1..Len(HIERARCHY[c])}
    ELSE {}

RECURSIVE Closure(_)
\* The names reachable from the names of S in zero or more steps.
Closure(S) ==
    LET T == S \cup UNION {EmbeddedNames(c) : c \in S}
    IN IF T = S THEN S ELSE Closure(T)

\* The names reachable from c in one or more steps.
Reachable(c) == Closure(EmbeddedNames(c))

\* The collection names of the default schema, with those of the calls the
\* traversal has pending.
CollectionNames ==
    DOMAIN HIERARCHY
    \cup {todo[n].collection[1] :
             n \in {m \in 1..Len(todo) : todo[m].collection # None}}

\* C16 as stated: no collection name of the default schema is reachable
\* from itself.
C16_Acyclic == \A c \in CollectionNames : c \notin Reachable(c)

\* C16 (amended): the only cycle of the default schema is the self-loop of
\* "cards", whose embedded field is named "cards": a collection name is
\* reachable from itself exactly when it is "cards", and "cards" reaches
\* nothing but itself.
C16_OnlyCardsLoop ==
    /\ \A c \in CollectionNames : c \in Reachable(c) <=> c = "cards"
    /\ Reachable("cards") = {"cards"}

\* The traversal is at a card that was reached through the field "cards" of
\* a card of the collection "cards".
C16_Witness ==
    /\ pc = "doc"
    /\ todo # <<>>
    /\ Head(todo) = Call(CardC, Some("cards"))
    /\ visited = <<Deck.key[1], CardB.key[1]>>

RECURSIVE PendingFrom(_, _)
\* The number of nodes of the subtrees of the calls i.. of td.
PendingFrom(td, i) ==
    IF i > Len(td) THEN 0
    ELSE Len(NodeList(td[i].doc, td[i].collection)) + PendingFrom(td, i + 1)

\* The number of nodes the traversal of the current document has still to
\* visit.
Pending(td) == PendingFrom(td, 1)

\* The call about to be made reaches its await: its key is new.
CanSee == todo # <<>> /\ Head(todo).doc.key \notin seenKeys

\* The call at its await stages its put: its key is defined and the
\* normalization of its value does not throw.
CanVisit ==
    /\ local[1].key # None
    /\ ~mapHierarchyThrows(local[1].value, Head(todo).collection)

\* C17: the traversal of one document ends, by returning or by failing,
\* after at most as many visits as the document tree has nodes.  While a
\* document is traversed it is never stuck: the next call can be made or the
\* traversal can return, and a call that is made ends by staging its put or
\* by failing; the traversal starts with the nodes of the document's tree
\* pending, each once; a call that reaches its await leaves as many nodes
\* pending, and when it returns one node more is visited and one node less
\* is pending, also where the schema leads from "cards" to "cards"; and a
\* node whose collection name is unknown to the schema adds no call.
C17_TraversalTerminates ==
    /\ [](pc = "doc" => CanSee \/ ENABLED (DocDone \/ VisitDuplicate))
    /\ [](pc = "map" =>
             /\ todo # <<>>
             /\ CanVisit \/ ENABLED (VisitInvalidKey \/ VisitMapFails))
    /\ [][(pc = "doc" /\ CanSee) => pc' = "map"]_vars
    /\ [][(pc = "map" /\ CanVisit) =>
             visited' = Append(visited, local[1].key[1])]_vars
    /\ [][(pc = "files" /\ pc' = "doc") =>
             Pending(todo') = Len(FileNodes(fi))]_vars
    /\ [][pc = "doc" =>
             /\ pc' \in {"map", "files", "failed"}
             /\ pc' = "map" =>
                   /\ visited' = visited
                   /\ Pending(todo') = Pending(todo)
             /\ pc' = "files" => Pending(todo) = 0]_vars
    /\ [][pc = "map" =>
             /\ pc' \in {"doc", "failed"}
             /\ pc' = "doc" =>
                   /\ Len(visited') = Len(visited) + 1
                   /\ Pending(todo') = Pending(todo) - 1]_vars
    /\ [][(pc = "map" /\ pc' = "doc"
              /\ HierarchyEntries(Head(todo).collection) = <<>>)
             => todo' = Tail(todo)]_vars

\* A finished run that traversed the nested cards of a deck and then a
\* document whose key names no collection.
C17_Witness ==
    /\ pc = "done"
    /\ files = <<Some(Deck), Some(FlatKeyDoc)>>
    /\ visited = <<Deck.key[1], CardB.key[1], CardC.key[1], FlatKeyDoc.key[1]>>

RECURSIVE FilesUnder(_, _, _)
\* The paths of the regular files among the entries i.. of a directory and,
\* when deep, of all its subdirectories at any depth.
FilesUnder(root, es, deep) ==
    UNION {IF es[i].kind = "file" THEN {Join(root, es[i].name)}
           ELSE IF es[i].kind = "dir" /\ deep
                THEN FilesUnder(Join(root, es[i].name), es[i].entries, deep)
                ELSE {}
           : i \in 1..Len(es)}

\* C18: once the enumeration is over it has returned, without duplicates,
\* every regular file of the source directory and, with recursive set, of
\* all its subdirectories at any depth; without recursive, exactly the
\* regular files directly in the source directory.
C18_RecursiveScan ==
    pc # "scan" =>
        /\ pc = "scanned"
        /\ {found[n] : n \in 1..Len(found)} = FilesUnder(Src, dir, recursive)
        /\ Len(found) = Cardinality(FilesUnder(Src, dir, recursive))

\* The identifiers a mapped field holds.
FieldIds(x) == IF x.t \in {"ids", "id"} THEN SeqToSet(x.v) ELSE {}

\* The identifiers of the documents of the calls of td made for field fname.
CallIds(td, fname) ==
    {td[n].doc.id : n \in {m \in 1..Len(td) : td[m].collection = Some(fname)}}

\* C19: at every visit of a node, for every field of its collection's
\* schema, the children the traversal goes on to visit through that field
\* are exactly the children whose identifiers the node's staged value holds
\* in that field.
C19_ChildrenAgree ==
    [][(AtAwait /\ Len(visited') > Len(visited)) =>
          LET entries == HierarchyEntries(Head(todo).collection)
              value == batch'[Len(batch')].value
              calls == SubSeq(todo', 1, Len(todo') - Len(Tail(todo)))
          IN \A e \in 1..Len(entries) :
                CallIds(calls, entries[e].name)
                   = FieldIds(value.emb[entries[e].name])]_vars

\* The documents of the calls of td made for field fname, in order.
CallDocs(td, fname) ==
    LET sel == SelectSeq(td, LAMBDA c : c.collection = Some(fname))
    IN [n \in 1..Len(sel) |-> sel[n].doc]

\* C20: a visit changes nothing of the source node but its key: the call
\* removes the key from the node and from nothing else when the node is an
\* object that occurs once; the value it stages is the node without its key,
\* its other own properties as in the source; and for every schema field in
\* which the source holds a list of documents or one nested document, the
\* traversal goes on with exactly those documents, in order, each as the
\* source held it, its own key included.  What was pending before the visit
\* stays pending behind them, unchanged.
C20_SourceUnchanged ==
    /\ [][(AtCall /\ pc' = "map") =>
             /\ Head(todo') = Call(DeleteKey(Head(todo).doc), Head(todo).collection)
             /\ Head(todo).doc.obj = "own" => Tail(todo') = Tail(todo)]_vars
    /\ [][(AtAwait /\ Len(visited') > Len(visited)) =>
             LET node == Head(todo)
                 entries == HierarchyEntries(node.collection)
                 value == batch'[Len(batch')].value
                 k == Len(todo') - Len(Tail(todo))
                 calls == SubSeq(todo', 1, k)
             IN /\ k >= 0
                /\ SubSeq(todo', k + 1, Len(todo')) = Tail(todo)
                /\ value.key = None
                /\ value.id = node.doc.id
                /\ value.name = node.doc.name
                /\ \A e \in 1..Len(entries) :
                      LET x == Field(node.doc, entries[e].name)
                      IN (x.t = "obj" \/ (x.t = "arr" /\ entries[e].type = "Sequence"))
                            => CallDocs(calls, entries[e].name) = FieldDocs(x)]_vars

\* The actor of the worked example has been visited and its item, with its
\* key, is the next node to visit.
C20_Witness ==
    /\ pc = "doc"
    /\ visited = <<Hero.key[1]>>
    /\ todo = <<Call(Sword, Some("items"))>>
    /\ Head(todo).doc.key = Some(K("actors.items", "I1"))
    /\ Puts[1].value.emb["items"] = [t |-> "ids", v |-> <<"I1">>]

====
